---- MODULE Spec2Model ----
(***************************************************************************)
(* A model of unitig_flipper (src/src/main.rs): build_dbg builds the       *)
(* border index and the orientation-tagged edges of the unitigs,           *)
(* pick_orientations orients every unitig by a depth-first traversal with  *)
(* an explicit stack, and main writes each unitig or its reverse           *)
(* complement.                                                             *)
(*                                                                         *)
(* Unitig ids are the code's ids 0..n-1.  A unitig is a sequence of bytes, *)
(* each byte a one-character string.  The stack's top is its last element. *)
(***************************************************************************)
EXTENDS Integers, Sequences, FiniteSets

VARIABLES
    k,              \* main: the parsed command-line k
    unitigs,        \* DBG.unitigs: the store, unitig id i is unitigs[i+1]
    borders,        \* build_dbg: (k-1)-mer -> list of MapValue
    edges,          \* DBG.edges: id -> list of Edge
    pc,             \* where the run is
    i,              \* the loop index of build_dbg's loops and of main's loop
    component_root, \* pick_orientations: the for loop's index
    orientations,   \* pick_orientations: id -> Orientation
    visited,        \* pick_orientations: id -> bool
    stack,          \* pick_orientations: the DFS stack of <<id, Orientation>>
    n_components,   \* pick_orientations: the component counter
    component_size, \* pick_orientations: the size of the current component
    stderr,         \* the component sizes reported by eprintln!, then the count
    output,         \* the records handed to the writer, in order
    writes,         \* history: id -> number of executions of line 160 for id
    pushes          \* history: number of executions of stack.push

vars == <<k, unitigs, borders, edges, pc, i, component_root, orientations,
          visited, stack, n_components, component_size, stderr, output,
          writes, pushes>>

(***************************************************************************)
(* Bounds of the model.                                                    *)
(***************************************************************************)
\* The total number of bytes of an enumerated store.
MaxTotal == 3
\* The largest enumerated k.
MaxK == 3
\* The size of an enumerated edge structure: its unitigs plus its edges.
MaxSize == 5

(***************************************************************************)
(* Types.                                                                  *)
(***************************************************************************)
Forward == "Forward"
Reverse == "Reverse"
Orientation == {Forward, Reverse}

Start == "Start"
End == "End"

\* The bytes rc accepts, and one representative of every other byte.
Nucleotides == {"A", "C", "G", "T"}
Bytes == Nucleotides \cup {"N"}

\* What rc's panic arm yields in place of a byte.
InvalidCharacter == "panic: Invalid character"

flip(o) == IF o = Forward THEN Reverse ELSE Forward

rc(c) ==
    CASE c = "A" -> "T"
      [] c = "T" -> "A"
      [] c = "G" -> "C"
      [] c = "C" -> "G"
      [] OTHER -> InvalidCharacter

\* seq.iter().rev().map(|&c| rc(c)).collect()
reverse_complement(seq) ==
    [j \in 1..Len(seq) |-> rc(seq[Len(seq) + 1 - j])]

\* The mutant of rc_panics: only the first and last k-1 bytes are complemented.
rc_panics_at_borders(seq) ==
    \E j \in (1..(k - 1)) \cup ((Len(seq) - (k - 1) + 1)..Len(seq)) :
        rc(seq[j]) = InvalidCharacter

\* Whether some call of rc in the map panicked.
rc_panics(seq) == \E j \in 1..Len(seq) : rc(seq[j]) = InvalidCharacter

sequence_count == Len(unitigs)
get(id) == unitigs[id + 1]
Ids == 0..(sequence_count - 1)

\* &seq[..k-1] and &seq[seq.len()-(k-1)..]
first_of(seq, kk) == SubSeq(seq, 1, kk - 1)
last_of(seq, kk) == SubSeq(seq, Len(seq) - (kk - 1) + 1, Len(seq))

\* Whether the slices of lines 84-85 are in range.
slices_in_range(seq, kk) == kk - 1 <= Len(seq)

insert_if_not_present(map, key) ==
    IF key \in DOMAIN map
    THEN map
    ELSE [x \in DOMAIN map \cup {key} |-> IF x = key THEN <<>> ELSE map[x]]

MapValue(id, position) == [unitig_id |-> id, position |-> position]

Edge(from, to, from_orientation, to_orientation) ==
    [from |-> from, to |-> to,
     from_orientation |-> from_orientation, to_orientation |-> to_orientation]

\* The mutant of push_edges: the entry's position is not compared.
push_edges_any_position(from, from_orientation, to_orientation, to_position, linking_kmer, es, bs) ==
    IF linking_kmer \in DOMAIN bs
    THEN LET vec == bs[linking_kmer]
         IN  [es EXCEPT ![from] =
                 @ \o [j \in 1..Len(vec) |->
                          Edge(from, vec[j].unitig_id, from_orientation, to_orientation)]]
    ELSE es

\* The mutant of push_edges: an entry of the unitig itself is skipped.
push_edges_no_self(from, from_orientation, to_orientation, to_position, linking_kmer, es, bs) ==
    IF linking_kmer \in DOMAIN bs
    THEN LET vec == SelectSeq(bs[linking_kmer],
                              LAMBDA x : x.position = to_position /\ x.unitig_id # from)
         IN  [es EXCEPT ![from] =
                 @ \o [j \in 1..Len(vec) |->
                          Edge(from, vec[j].unitig_id, from_orientation, to_orientation)]]
    ELSE es

push_edges(from, from_orientation, to_orientation, to_position, linking_kmer, es, bs) ==
    IF linking_kmer \in DOMAIN bs
    THEN LET vec == SelectSeq(bs[linking_kmer], LAMBDA x : x.position = to_position)
         IN  [es EXCEPT ![from] =
                 @ \o [j \in 1..Len(vec) |->
                          Edge(from, vec[j].unitig_id, from_orientation, to_orientation)]]
    ELSE es

\* The mutant of next_orientation: a Forward-Reverse edge does not flip.
next_orientation_FR_kept(edge, orientation) ==
    IF edge.from_orientation = Reverse /\ edge.to_orientation = Forward
    THEN flip(orientation)
    ELSE orientation

\* The mutant of next_orientation: a Reverse-Reverse edge flips.
next_orientation_RR_flipped(edge, orientation) ==
    IF edge.from_orientation = Forward /\ edge.to_orientation = Forward
    THEN orientation
    ELSE flip(orientation)

next_orientation(edge, orientation) ==
    CASE edge.from_orientation = Forward /\ edge.to_orientation = Forward -> orientation
      [] edge.from_orientation = Forward /\ edge.to_orientation = Reverse -> flip(orientation)
      [] edge.from_orientation = Reverse /\ edge.to_orientation = Forward -> flip(orientation)
      [] edge.from_orientation = Reverse /\ edge.to_orientation = Reverse -> orientation

(***************************************************************************)
(* The inputs: every store of at most MaxTotal bytes with every k up to    *)
(* MaxK, and the two-unitig stores of the end-to-end scenarios with k = 4. *)
(***************************************************************************)
RECURSIVE SeqsOfLen(_)
SeqsOfLen(len) ==
    IF len = 0 THEN {<<>>}
    ELSE {Append(s, c) : s \in SeqsOfLen(len - 1), c \in Bytes}

RECURSIVE StoresWithin(_)
StoresWithin(budget) ==
    {<<>>} \cup
    UNION {{<<u>> \o rest : u \in SeqsOfLen(len), rest \in StoresWithin(budget - len)} :
              len \in 1..budget}

ScenarioStores ==
    {<< <<"A","A","T","C","G">>, <<"T","C","G","A">> >>,
     << <<"A","A","T","C","G">>, <<"A","C","G","A">> >>}

Init ==
    /\ \/ k \in 0..MaxK /\ unitigs \in StoresWithin(MaxTotal)
       \/ k = 4 /\ unitigs \in ScenarioStores
    /\ borders = <<>>
    /\ edges = <<>>
    /\ pc = "build_borders"
    /\ i = 0
    /\ component_root = 0
    /\ orientations = <<>>
    /\ visited = <<>>
    /\ stack = <<>>
    /\ n_components = 0
    /\ component_size = 0
    /\ stderr = <<>>
    /\ output = <<>>
    /\ writes = <<>>
    /\ pushes = 0

(***************************************************************************)
(* build_dbg.                                                              *)
(***************************************************************************)
pick_vars == <<component_root, orientations, visited, stack, n_components,
               component_size, stderr, writes, pushes>>

\* One iteration of the loop of lines 81-103.
BuildBorders ==
    /\ pc = "build_borders"
    /\ i < sequence_count
    /\ LET seq == get(i)
       IN  IF k = 0
           THEN \* k-1 on a usize: an overflow panic in a debug build, a wrap to
                \* usize::MAX and an out-of-range slice in a release build
                /\ pc' \in {"panic_overflow", "panic_slice"}
                /\ UNCHANGED <<borders, i>>
           ELSE IF ~slices_in_range(seq, k)
           THEN /\ pc' = "panic_slice"
                /\ UNCHANGED <<borders, i>>
           ELSE LET first == first_of(seq, k)
                    last == last_of(seq, k)
                    b1 == insert_if_not_present(borders, first)
                    b2 == insert_if_not_present(b1, last)
                    b3 == [b2 EXCEPT ![first] = Append(@, MapValue(i, Start))]
                    b4 == [b3 EXCEPT ![last] = Append(@, MapValue(i, End))]
                IN  /\ borders' = b4
                    /\ i' = i + 1
                    /\ pc' = pc
    /\ UNCHANGED <<k, unitigs, edges, output>>
    /\ UNCHANGED pick_vars

\* Lines 105-106: the loop is over, n empty edge lists are allocated.
AllocateEdges ==
    /\ pc = "build_borders"
    /\ i = sequence_count
    /\ edges' = [id \in Ids |-> <<>>]
    /\ i' = 0
    /\ pc' = "build_edges"
    /\ UNCHANGED <<k, unitigs, borders, output>>
    /\ UNCHANGED pick_vars

\* One iteration of the loop of lines 109-129.
BuildEdges ==
    /\ pc = "build_edges"
    /\ i < sequence_count
    /\ LET seq == get(i)
       IN  IF rc_panics(seq)
           THEN /\ pc' = "panic_invalid_char"
                /\ UNCHANGED <<edges, i>>
           ELSE IF k = 0
           THEN /\ pc' \in {"panic_overflow", "panic_slice"}
                /\ UNCHANGED <<edges, i>>
           ELSE IF ~slices_in_range(seq, k)
           THEN /\ pc' = "panic_slice"
                /\ UNCHANGED <<edges, i>>
           ELSE LET unitig_rc == reverse_complement(seq)
                    first == first_of(seq, k)
                    last == last_of(seq, k)
                    first_rc == last_of(unitig_rc, k)
                    last_rc == first_of(unitig_rc, k)
                    e1 == push_edges(i, Forward, Forward, Start, last, edges, borders)
                    e2 == push_edges(i, Forward, Reverse, End, last_rc, e1, borders)
                    e3 == push_edges(i, Reverse, Reverse, End, first, e2, borders)
                    e4 == push_edges(i, Reverse, Forward, Start, first_rc, e3, borders)
                IN  /\ edges' = e4
                    /\ i' = i + 1
                    /\ pc' = pc
    /\ UNCHANGED <<k, unitigs, borders, output>>
    /\ UNCHANGED pick_vars

\* Line 131 and lines 135-141: build_dbg returns, pick_orientations sets up.
EnterPick ==
    /\ pc = "build_edges"
    /\ i = sequence_count
    /\ orientations' = [id \in Ids |-> Forward]
    /\ visited' = [id \in Ids |-> FALSE]
    /\ writes' = [id \in Ids |-> 0]
    /\ stack' = <<>>
    /\ n_components' = 0
    /\ component_root' = 0
    /\ pc' = "pick_root"
    /\ UNCHANGED <<k, unitigs, borders, edges, i, component_size, stderr, output, pushes>>

(***************************************************************************)
(* pick_orientations.                                                      *)
(***************************************************************************)
build_vars == <<k, unitigs, borders, edges, i, output>>

\* The mutant of next_root: the for loop never advances.
next_root_stuck(root) == root

\* Line 142: the for loop's step.
next_root(root) == root + 1

\* Lines 143-145: the root is already visited, continue.
RootSkip ==
    /\ pc = "pick_root"
    /\ component_root < sequence_count
    /\ visited[component_root]
    /\ component_root' = next_root(component_root)
    /\ UNCHANGED <<pc, orientations, visited, stack, n_components, component_size,
                   stderr, writes, pushes>>
    /\ UNCHANGED build_vars

\* Lines 147-151: a new component, its root is pushed as Forward.
RootStart ==
    /\ pc = "pick_root"
    /\ component_root < sequence_count
    /\ ~visited[component_root]
    /\ n_components' = n_components + 1
    /\ stack' = Append(stack, <<component_root, Forward>>)
    /\ pushes' = pushes + 1
    /\ component_size' = 0
    /\ pc' = "dfs"
    /\ UNCHANGED <<component_root, orientations, visited, stderr, writes>>
    /\ UNCHANGED build_vars

\* The mutant of pushed_entries: the loop skips the first edge.
pushed_entries_skip_first(unitig_id, orientation) ==
    [j \in 1..(Len(edges[unitig_id]) - 1) |->
        <<edges[unitig_id][j + 1].to, next_orientation(edges[unitig_id][j + 1], orientation)>>]

\* The entries the loop of lines 162-170 pushes for unitig_id, in order.
pushed_entries(unitig_id, orientation) ==
    [j \in 1..Len(edges[unitig_id]) |->
        <<edges[unitig_id][j].to, next_orientation(edges[unitig_id][j], orientation)>>]

\* The mutant of already_visited: no popped entry is discarded.
never_visited(unitig_id) == FALSE

\* Whether the popped entry is discarded (lines 154-156).
already_visited(unitig_id) == visited[unitig_id]

\* One iteration of the while loop of lines 153-171.
DfsPop ==
    /\ pc = "dfs"
    /\ stack # <<>>
    /\ LET top == stack[Len(stack)]
           unitig_id == top[1]
           orientation == top[2]
           rest == SubSeq(stack, 1, Len(stack) - 1)
       IN  IF already_visited(unitig_id)
           THEN /\ stack' = rest
                /\ UNCHANGED <<component_size, visited, orientations, writes, pushes>>
           ELSE /\ component_size' = component_size + 1
                /\ visited' = [visited EXCEPT ![unitig_id] = TRUE]
                /\ orientations' = [orientations EXCEPT ![unitig_id] = orientation]
                /\ writes' = [writes EXCEPT ![unitig_id] = @ + 1]
                /\ stack' = rest \o pushed_entries(unitig_id, orientation)
                /\ pushes' = pushes + Len(edges[unitig_id])
    /\ UNCHANGED <<pc, component_root, n_components, stderr>>
    /\ UNCHANGED build_vars

\* Line 172: the stack is empty, the component's size is reported and the
\* for loop moves to the next root.
DfsEnd ==
    /\ pc = "dfs"
    /\ stack = <<>>
    /\ stderr' = Append(stderr, component_size)
    /\ component_root' = next_root(component_root)
    /\ pc' = "pick_root"
    /\ UNCHANGED <<orientations, visited, stack, n_components, component_size,
                   writes, pushes>>
    /\ UNCHANGED build_vars

\* Lines 175-177 and 190-191: the count is reported, the orientations are
\* returned, main creates the writer and starts its loop.
PickReturn ==
    /\ pc = "pick_root"
    /\ component_root = sequence_count
    /\ stderr' = Append(stderr, n_components)
    /\ pc' = "write"
    /\ i' = 0
    /\ UNCHANGED <<component_root, orientations, visited, stack, n_components,
                   component_size, writes, pushes>>
    /\ UNCHANGED <<k, unitigs, borders, edges, output>>

(***************************************************************************)
(* main's output loop.                                                     *)
(***************************************************************************)
\* The mutant of emitted_record: the stored sequence whatever the orientation.
emitted_record_unflipped(id, orientation) == get(id)

\* Lines 193-200: the record written for a unitig with its orientation.
emitted_record(id, orientation) ==
    IF orientation = Forward THEN get(id) ELSE reverse_complement(get(id))

\* One iteration of the loop of lines 191-202.
WriteRecord ==
    /\ pc = "write"
    /\ i < sequence_count
    /\ IF orientations[i] = Reverse /\ rc_panics(get(i))
       THEN /\ pc' = "panic_invalid_char"
            /\ UNCHANGED <<output, i>>
       ELSE /\ output' = Append(output, emitted_record(i, orientations[i]))
            /\ i' = i + 1
            /\ pc' = pc
    /\ UNCHANGED <<k, unitigs, borders, edges>>
    /\ UNCHANGED pick_vars

\* The loop is over and main returns.
Exit ==
    /\ pc = "write"
    /\ i = sequence_count
    /\ pc' = "done"
    /\ UNCHANGED <<k, unitigs, borders, edges, i, output>>
    /\ UNCHANGED pick_vars

Next ==
    \/ BuildBorders
    \/ AllocateEdges
    \/ BuildEdges
    \/ EnterPick
    \/ RootSkip
    \/ RootStart
    \/ DfsPop
    \/ DfsEnd
    \/ PickReturn
    \/ WriteRecord
    \/ Exit

Spec == Init /\ [][Next]_vars

(***************************************************************************)
(* pick_orientations on its own: it reads the unitig count and the edges   *)
(* only, so it is started on every edge structure whose unitigs and edges  *)
(* number at most MaxSize together, in the state lines 135-141 leave.      *)
(***************************************************************************)
RECURSIVE EdgeSeqs(_, _, _)
EdgeSeqs(from, n, len) ==
    IF len = 0 THEN {<<>>}
    ELSE {Append(s, Edge(from, to, a, b)) :
             s \in EdgeSeqs(from, n, len - 1), to \in 0..(n - 1),
             a \in Orientation, b \in Orientation}

RECURSIVE EdgeLists(_, _, _)
EdgeLists(from, n, budget) ==
    IF from = n THEN {<<>>}
    ELSE UNION {{<<l>> \o rest : l \in EdgeSeqs(from, n, len),
                                 rest \in EdgeLists(from + 1, n, budget - len)} :
                   len \in 0..budget}

GraphInit ==
    /\ k = 1
    /\ borders = <<>>
    /\ \E n \in 0..MaxSize :
          /\ unitigs = [j \in 1..n |-> <<>>]
          /\ \E ls \in EdgeLists(0, n, MaxSize - n) :
                edges = [id \in 0..(n - 1) |-> ls[id + 1]]
          /\ orientations = [id \in 0..(n - 1) |-> Forward]
          /\ visited = [id \in 0..(n - 1) |-> FALSE]
          /\ writes = [id \in 0..(n - 1) |-> 0]
          /\ i = n
    /\ pc = "pick_root"
    /\ component_root = 0
    /\ stack = <<>>
    /\ n_components = 0
    /\ component_size = 0
    /\ stderr = <<>>
    /\ output = <<>>
    /\ pushes = 0

GraphNext ==
    \/ RootSkip
    \/ RootStart
    \/ DfsPop
    \/ DfsEnd
    \/ PickReturn

\* The program is sequential: it takes its next step whenever it has one.
GraphSpec == GraphInit /\ [][GraphNext]_vars /\ WF_vars(GraphNext)

(***************************************************************************)
(* Definitions the properties use.                                         *)
(***************************************************************************)
InPick == pc \in {"pick_root", "dfs"}
Returned == pc \in {"write", "done"}

VisitedSet == {id \in Ids : visited[id]}

\* The unitigs one edge away from a unitig of S.
Targets(S) == UNION {{edges[u][j].to : j \in 1..Len(edges[u])} : u \in S}

\* The unitigs reachable from a unitig of S along directed edges.
RECURSIVE ReachFrom(_)
ReachFrom(S) ==
    LET T == S \cup Targets(S)
    IN  IF T = S THEN S ELSE ReachFrom(T)

\* The unitigs reachable from root and from no smaller id.
NewAt(root) == ReachFrom({root}) \ ReachFrom(0..(root - 1))

IsRoot(root) == root \notin ReachFrom(0..(root - 1))

\* The component sizes of the roots in from..(to-1), in ascending root order.
RECURSIVE SizesFrom(_, _)
SizesFrom(from, to) ==
    IF from >= to THEN <<>>
    ELSE (IF IsRoot(from) THEN <<Cardinality(NewAt(from))>> ELSE <<>>)
         \o SizesFrom(from + 1, to)

TotalEdges == LET RECURSIVE Sum(_)
                  Sum(id) == IF id < 0 THEN 0 ELSE Len(edges[id]) + Sum(id - 1)
              IN  Sum(sequence_count - 1)

Differ(e) == e.from_orientation # e.to_orientation

EdgesOf(u) == {edges[u][j] : j \in 1..Len(edges[u])}

(***************************************************************************)
(* The properties.                                                         *)
(***************************************************************************)

\* C1: on every edge structure, line 160 has run exactly once for every
\* visited unitig and never for an unvisited one, at every step of the
\* traversal, and when pick_orientations has returned every id is visited.
C1_Totality ==
    /\ (InPick \/ Returned) =>
          \A id \in Ids : writes[id] = (IF visited[id] THEN 1 ELSE 0)
    /\ Returned => \A id \in Ids : visited[id]

\* pick_orientations has returned on a structure with a self-loop that
\* flips (an odd cycle), parallel edges and another unitig.
C1_Witness ==
    /\ pc = "write"
    /\ sequence_count >= 2
    /\ \E u \in Ids :
          /\ Len(edges[u]) >= 2
          /\ edges[u][1].to = u /\ Differ(edges[u][1])
          /\ edges[u][2].to = edges[u][1].to

\* C8: pick_orientations terminates on every edge structure: the stack is
\* empty with all roots scanned eventually; no unitig's edge list is
\* expanded twice, and the pushes number at most n plus the edges.
C8_Terminates ==
    /\ <>(pc = "write" /\ stack = <<>> /\ component_root = sequence_count)
    /\ [](\A id \in Ids : writes[id] <= 1)
    /\ [](pushes <= sequence_count + TotalEdges)

\* pick_orientations has returned on a structure with a cycle through two
\* unitigs, after pushing every edge's target and every unitig as a root.
C8_Witness ==
    /\ pc = "write"
    /\ stack = <<>>
    /\ \E u, v \in Ids : u # v /\ v \in Targets({u}) /\ u \in Targets({v})
    /\ pushes > sequence_count

\* C9: roots are taken in ascending order, and once the exploration from a
\* root has emptied the stack the visited unitigs are exactly those
\* reachable from the ids up to the root, so the root's exploration has
\* marked exactly the unitigs reachable from it that were unvisited before;
\* the reported sizes and count are those of the graph, whatever the order
\* of the pops.
C9_ReachedSet ==
    /\ pc = "pick_root" =>
          /\ VisitedSet = ReachFrom(0..(component_root - 1))
          /\ stderr = SizesFrom(0, component_root)
          /\ n_components = Len(stderr)
    /\ (pc = "dfs" /\ stack = <<>>) =>
          /\ VisitedSet = ReachFrom(0..component_root)
          /\ component_size = Cardinality(NewAt(component_root))
    /\ (pc = "dfs") => IsRoot(component_root)
    /\ pc = "write" =>
          stderr = SizesFrom(0, sequence_count) \o <<Len(SizesFrom(0, sequence_count))>>

\* The exploration of root 1 has ended; it reached unitig 0, which root 0
\* had already visited, and unitig 2, which it marked.
C9_Witness ==
    /\ pc = "dfs" /\ stack = <<>>
    /\ component_root = 1
    /\ sequence_count = 3
    /\ Targets({1}) = {0, 2}
    /\ component_size = 2

(***************************************************************************)
(* Definitions the properties of build_dbg use, from the store alone.      *)
(***************************************************************************)
first(id) == first_of(get(id), k)
last(id) == last_of(get(id), k)

AllLongEnough == k >= 1 /\ \A id \in Ids : k - 1 <= Len(get(id))
ValidUnitig(id) == \A j \in 1..Len(get(id)) : get(id)[j] \in Nucleotides

\* Whether the boundaries of i and j match for the orientation pair.
Matches(id, j, a, b) ==
    CASE a = Forward /\ b = Forward -> first(j) = last(id)
      [] a = Forward /\ b = Reverse -> last(j) = reverse_complement(last(id))
      [] a = Reverse /\ b = Reverse -> last(j) = first(id)
      [] a = Reverse /\ b = Forward -> first(j) = reverse_complement(first(id))

Count(list, e) == Cardinality({x \in 1..Len(list) : list[x] = e})

\* The ids whose edge lists build_dbg has finished.
BuiltIds ==
    IF pc = "build_edges" THEN 0..(i - 1)
    ELSE IF InPick \/ Returned THEN Ids
    ELSE {}

\* The pairs <<unitig, parity>> reachable from a pair of S, the parity being
\* that of the number of the walk's edges whose orientations differ.
RECURSIVE ParityReach(_)
ParityReach(S) ==
    LET T == S \cup UNION {{<<e.to, (x[2] + (IF Differ(e) THEN 1 ELSE 0)) % 2>> :
                               e \in EdgesOf(x[1])} : x \in S}
    IN  IF T = S THEN S ELSE ParityReach(T)

\* Whether a cycle through v has an odd number of edges that differ.
OddCycleThrough(v) == <<v, 1>> \in ParityReach({<<v, 0>>})

\* Whether every cycle of u's component is even.
Balanced(u) == \A v \in ReachFrom({u}) : ~OddCycleThrough(v)

Satisfied(e) ==
    orientations[e.to] =
        (IF Differ(e) THEN flip(orientations[e.from]) ELSE orientations[e.from])

AATCG == <<"A", "A", "T", "C", "G">>
TCGA == <<"T", "C", "G", "A">>

\* C2: for the edges build_dbg derives, every edge of a component all of
\* whose cycles are even is satisfied by the orientations returned.
C2_Consistent ==
    Returned =>
        \A u \in Ids : Balanced(u) => \A e \in EdgesOf(u) : Satisfied(e)

\* A store whose three or more unitigs form one component with even cycles
\* only, an edge that differs, and a unitig resolved to Reverse.
C2_Witness ==
    /\ pc = "done"
    /\ sequence_count >= 3
    /\ ReachFrom({0}) = Ids
    /\ Balanced(0)
    /\ \E u \in Ids : \E e \in EdgesOf(u) : Differ(e) /\ e.to # u
    /\ \E u \in Ids : orientations[u] = Reverse

\* C3: the finished edge list of unitig i holds edges from i only, and the
\* edge (i, j, a, b) once when the boundaries of i and j match for (a, b)
\* and not at all otherwise.
C3_EdgesExact ==
    \A id \in BuiltIds :
        /\ \A x \in 1..Len(edges[id]) : edges[id][x].from = id
        /\ \A j \in Ids : \A a \in Orientation : \A b \in Orientation :
              Count(edges[id], Edge(id, j, a, b)) =
                  (IF Matches(id, j, a, b) THEN 1 ELSE 0)

\* build_dbg has finished on a store with a self-loop and with two parallel
\* edges between different unitigs.
C3_Witness ==
    /\ InPick
    /\ \E u \in Ids : \E e \in EdgesOf(u) : e.to = u
    /\ \E u \in Ids : \E e1, e2 \in EdgesOf(u) : e1.to # u /\ e1.to = e2.to /\ e1 # e2

\* C4 as stated: with k = 4 and the store [AATCG, TCGA], the first edge of
\* unitig 0 is (0 -> 1, Forward, Forward), the orientations returned are
\* [Forward, Forward] and the records written are AATCG and TCGA.
C4_Original ==
    (k = 4 /\ unitigs = <<AATCG, TCGA>>) =>
        /\ (InPick \/ Returned) => edges[0][1] = Edge(0, 1, Forward, Forward)
        /\ Returned => orientations = [id \in Ids |-> Forward]
        /\ pc = "done" => output = <<AATCG, TCGA>>

\* C4 as amended: unitig 1 is resolved to Reverse, by the edge
\* (0 -> 1, Forward, Reverse) that the reverse complement of the same suffix
\* gives and that is pushed last; TCGA is its own reverse complement.
C4_Amended ==
    (k = 4 /\ unitigs = <<AATCG, TCGA>>) =>
        /\ (InPick \/ Returned) =>
              edges[0] = <<Edge(0, 1, Forward, Forward), Edge(0, 1, Forward, Reverse)>>
        /\ Returned => orientations = [id \in Ids |-> IF id = 0 THEN Forward ELSE Reverse]
        /\ pc = "done" => output = <<AATCG, TCGA>>

C4_Witness ==
    k = 4 /\ unitigs = <<AATCG, TCGA>> /\ pc = "done" /\ Len(output) = 2

\* The store has two unitigs and one boundary match, between the last k-1
\* bytes of unitig 1 and the reverse complement of those of unitig 0.
OnlyReverseLinked ==
    /\ sequence_count = 2
    /\ AllLongEnough
    /\ \A id \in Ids : ValidUnitig(id)
    /\ \A id, j \in Ids : \A a, b \in Orientation :
          Matches(id, j, a, b) <=> (id # j /\ a = Forward /\ b = Reverse)

\* C5: in such a store unitig 0 is resolved to Forward and unitig 1 to
\* Reverse, and the record written for unitig 1 is the reverse complement of
\* its sequence.
C5_ReverseLinked ==
    OnlyReverseLinked =>
        /\ Returned => orientations[0] = Forward /\ orientations[1] = Reverse
        /\ pc = "done" =>
              output = <<get(0), reverse_complement(get(1))>>

C5_Witness ==
    /\ OnlyReverseLinked
    /\ k = 4 /\ get(0) = AATCG
    /\ pc = "done"
    /\ output[2] # get(1)

\* C6 as stated: when a unitig is shorter than k-1 the run does not go
\* beyond the border loop other than into a reported validation error, so
\* it never panics on the slicing, and nothing is written.
C6_ValidationError ==
    (\E id \in Ids : Len(get(id)) < k - 1) =>
        /\ pc \in {"build_borders", "validation_error"}
        /\ output = <<>>

\* C7: when a unitig holds a byte outside A, C, G, T and all unitigs are
\* long enough, the run does not leave build_dbg other than by the
\* invalid-character panic: the edge loop never passes an invalid unitig,
\* pick_orientations is not entered and nothing is written.
C7_InvalidAborts ==
    (AllLongEnough /\ \E id \in Ids : ~ValidUnitig(id)) =>
        /\ pc \in {"build_borders", "build_edges", "panic_invalid_char"}
        /\ pc = "build_edges" => \A id \in 0..(i - 1) : ValidUnitig(id)
        /\ pc = "panic_invalid_char" => ~ValidUnitig(i)
        /\ output = <<>>

\* The run has panicked on a unitig whose first and last k-1 bytes are valid.
C7_Witness ==
    /\ pc = "panic_invalid_char"
    /\ k >= 2
    /\ \A j \in 1..(k - 1) : first(i)[j] \in Nucleotides /\ last(i)[j] \in Nucleotides

\* C10: when build_dbg has finished, every edge (u, v, a, b) is in edges[u]
\* as many times as (v, u, flip(b), flip(a)) is in edges[v], and
\* reachability along the edges is symmetric.
C10_Reciprocal ==
    (InPick \/ Returned) =>
        /\ \A u \in Ids : \A e \in EdgesOf(u) :
              Count(edges[u], e) =
                  Count(edges[e.to],
                        Edge(e.to, u, flip(e.to_orientation), flip(e.from_orientation)))
        /\ \A u \in Ids : \A v \in ReachFrom({u}) : u \in ReachFrom({v})

\* build_dbg has finished with an edge between two unitigs whose
\* orientations differ and whose reverse edge is another edge.
C10_Witness ==
    /\ InPick
    /\ \E u \in Ids : \E e \in EdgesOf(u) :
          /\ e.to # u
          /\ e.from_orientation = Reverse /\ e.to_orientation = Forward

====
